---------------------------- MODULE Spec2Model ----------------------------
(***************************************************************************)
(* Curriculum schedule and CurriculumDataset of                            *)
(* 04_training_long_sequences.ipynb.                                       *)
(*                                                                         *)
(* The notebook keeps three module-level globals (max_length, min_length,  *)
(* num_epochs), a pure function get_sequence_length(epoch) over them, and  *)
(* a torch Dataset wrapper that tokenizes one corpus record per            *)
(* __getitem__ call to the length the schedule gave at construction.       *)
(***************************************************************************)
EXTENDS Integers, Sequences, FiniteSets

(***************************************************************************)
(* Bounds of the model.                                                    *)
(***************************************************************************)
MaxMinLength == 2      \* small values of min_length are 1..MaxMinLength
MaxSpan      == 3      \* max_length ranges up to min_length + MaxSpan
MaxTotal     == 2      \* small values of num_epochs go up to MaxTotal
MaxEpoch     == 4      \* epochs passed to the schedule are -1..MaxEpoch
MaxRecords   == 2      \* the corpus has at most MaxRecords records
MaxWords     == 2      \* the corpus has at most MaxWords words in all
MaxLayers    == 2    \* blocks of a loaded GPT-2 model are 1..MaxLayers

(***************************************************************************)
(* Constants of the notebook.                                              *)
(***************************************************************************)
NbMaxLength == 4096
NbMinLength == 1024
NbNumEpochs == 3
IgnoreIndex == -100     \* the label value the loss ignores
PadTokenId  == 1        \* tokenizer.pad_token_id of the Longformer tokenizer

VARIABLES
    max_length,     \* global max_length
    min_length,     \* global min_length
    num_epochs,     \* global num_epochs
    dataset,        \* global dataset: split name -> sequence of records
    objects,        \* the CurriculumDataset object each name is bound to
    ret,            \* outcome of the last call: what it returned or raised
    calls,          \* the get_sequence_length calls completed so far
    first,          \* the first __getitem__ call completed, as ret showed it
    interleaved,    \* a call other than first's own has completed after it
    pc,             \* the statement of the training-loop cell to run next
    loop_epoch,     \* the loop variable epoch of that cell
    training_args,  \* global training_args
    trainer,        \* global trainer
    made,           \* the iteration in which each name was last bound
    printed,        \* what the last "Epoch .../..., Sequence Length: ..." said
    trace,          \* the train() and evaluate() calls made, in order
    since,          \* what has run since the first get_sequence_length call
    bench_pc,       \* the statement of the inference notebook to run next
    binding,        \* the model object each name of that notebook is bound to
    heap,           \* the model objects of that notebook, by identity
    measured,       \* the object each benchmark label was measured on
    runs            \* forward calls made in the current loop of a benchmark

vars == <<max_length, min_length, num_epochs, dataset, objects, ret, calls,
          first, interleaved, pc, loop_epoch, training_args, trainer, made,
          printed, trace, since, bench_pc, binding, heap, measured, runs>>

loop == <<pc, loop_epoch, training_args, trainer, made, printed, trace>>

history == <<first, interleaved>>

bench == <<bench_pc, binding, heap, measured, runs>>

globals == <<max_length, min_length, num_epochs, dataset>>

(***************************************************************************)
(* The outcome of a call: op names the function, self the object it was    *)
(* called on ("" for a plain function), arg its argument, status is "ok" or *)
(* the exception raised, value what it returned (0 when it raised).        *)
(***************************************************************************)
Outcome(op, self, arg, r) ==
    [op |-> op, self |-> self, arg |-> arg,
     status |-> r.status, value |-> r.value]

NoCall == [op |-> "none", self |-> "", arg |-> 0, status |-> "ok", value |-> 0]

Raised(err) == [status |-> err, value |-> 0]
Returned(v) == [status |-> "ok", value |-> v]

(***************************************************************************)
(* Python's builtin min on two integers.                                   *)
(***************************************************************************)
Min(a, b) == IF a <= b THEN a ELSE b

(***************************************************************************)
(* Python's a // b on integers: the floor of the quotient, for either sign *)
(* of the divisor.  b # 0 (the caller raises ZeroDivisionError first).     *)
(***************************************************************************)
FloorDiv(a, b) == IF b > 0 THEN a \div b ELSE (0 - a) \div (0 - b)

(***************************************************************************)
(* get_sequence_length(epoch), over the globals given as mx, mn, n.        *)
(*   min(max_length,                                                       *)
(*       min_length + (max_length - min_length) * epoch // num_epochs)     *)
(* * and // have the same precedence and associate to the left; + binds    *)
(* less tightly.  Division by zero raises; value is meaningful only when   *)
(* status = "ok".                                                          *)
(***************************************************************************)

\* the division applied before the multiplication by epoch
get_sequence_length_divfirst(mx, mn, n, epoch) ==
    IF n = 0
    THEN Raised("ZeroDivisionError")
    ELSE Returned(Min(mx, mn + FloorDiv(mx - mn, n) * epoch))

\* the difference taken the wrong way round
get_sequence_length_swapped(mx, mn, n, epoch) ==
    IF n = 0
    THEN Raised("ZeroDivisionError")
    ELSE Returned(Min(mx, mn + FloorDiv((mn - mx) * epoch, n)))

\* epochs counted from one, as the loop prints them
get_sequence_length_onebased(mx, mn, n, epoch) ==
    IF n = 0
    THEN Raised("ZeroDivisionError")
    ELSE Returned(Min(mx, mn + FloorDiv((mx - mn) * (epoch + 1), n)))

\* the clamp to max_length left out
get_sequence_length_noclamp(mx, mn, n, epoch) ==
    IF n = 0
    THEN Raised("ZeroDivisionError")
    ELSE Returned(mn + FloorDiv((mx - mn) * epoch, n))

\* the last epoch of the loop made to reach max_length
get_sequence_length_lastfull(mx, mn, n, epoch) ==
    IF n = 1
    THEN Raised("ZeroDivisionError")
    ELSE Returned(Min(mx, mn + FloorDiv((mx - mn) * epoch, n - 1)))

\* the offset min_length left out, the ramp taken from zero to max_length
get_sequence_length_nooffset(mx, mn, n, epoch) ==
    IF n = 0
    THEN Raised("ZeroDivisionError")
    ELSE Returned(Min(mx, FloorDiv(mx * epoch, n)))

get_sequence_length(mx, mn, n, epoch) ==
    IF n = 0
    THEN Raised("ZeroDivisionError")
    ELSE Returned(Min(mx, mn + FloorDiv((mx - mn) * epoch, n)))

(***************************************************************************)
(* Values of the globals.  ScheduleParams holds every combination of small *)
(* values, those the schedule's contract excludes included (num_epochs <=  *)
(* 0, max_length < min_length), and the notebook's own constants.          *)
(***************************************************************************)
NotebookParams == [mx |-> NbMaxLength, mn |-> NbMinLength, n |-> NbNumEpochs]

SmallParams ==
    { p \in [mx : 0..(MaxMinLength + MaxSpan),
             mn : 1..MaxMinLength,
             n  : -1..MaxTotal] :
        p.mx >= p.mn - 1 /\ p.mx <= p.mn + MaxSpan }

ScheduleParams == SmallParams \cup {NotebookParams}

ValidParams(mx, mn, n) == mn > 0 /\ mx >= mn /\ n > 0

Epochs == -1..MaxEpoch

(***************************************************************************)
(* The corpus.  A record is a row with a text field; a text is a sequence  *)
(* of words.  The tokenizer's vocabulary maps a word to its token id; the  *)
(* literal "<pad>" in a text is the padding token itself.                  *)
(***************************************************************************)
Words == {"<pad>", "the"}

vocab == [w \in Words |-> IF w = "<pad>" THEN PadTokenId ELSE 5]

SeqsUpTo(S, n) == UNION { [1..k -> S] : k \in 0..n }

Texts == SeqsUpTo(Words, MaxWords)

Records == { [text |-> t] : t \in Texts }

RECURSIVE TotalWords(_)
TotalWords(rows) ==
    IF rows = << >> THEN 0
    ELSE Len(Head(rows).text) + TotalWords(Tail(rows))

Corpora == { c \in SeqsUpTo(Records, MaxRecords) : TotalWords(c) <= MaxWords }

Splits == {"train", "validation"}

NoDataset == [s \in Splits |-> << >>]

(***************************************************************************)
(* The names the notebook binds CurriculumDataset objects to, and the      *)
(* split each is built over.  A name not bound yet holds NoObject.         *)
(***************************************************************************)
Names == {"train_dataset", "eval_dataset"}

SplitOf(name) == IF name = "train_dataset" THEN "train" ELSE "validation"

NoObject == [dataset |-> "", tokenizer |-> "", seq_length |-> 0]

(***************************************************************************)
(* dataset[idx] of a datasets.Dataset (a Python sequence): a negative idx  *)
(* counts from the end, and an idx outside -len..len-1 raises IndexError.  *)
(***************************************************************************)
\* an index below zero refused instead of counted from the end
dataset_getitem_checked(rows, idx) ==
    IF idx < 0 \/ idx >= Len(rows)
    THEN Raised("IndexError")
    ELSE Returned(rows[idx + 1])

dataset_getitem(rows, idx) ==
    LET k == IF idx < 0 THEN idx + Len(rows) ELSE idx
    IN  IF k < 0 \/ k >= Len(rows)
        THEN Raised("IndexError")
        ELSE Returned(rows[k + 1])

(***************************************************************************)
(* tokenizer(text, truncation=.., padding=.., max_length=..,               *)
(*           return_tensors='pt'): the words of the text as token ids, cut *)
(* to max_length when truncation is on, filled on the right with the       *)
(* padding token id up to max_length when padding is 'max_length'.  The    *)
(* result has a batch dimension of one row.  The tokenizer is the          *)
(* library's; the special tokens it puts around a text are not modelled.   *)
(***************************************************************************)
encode(text) == [i \in 1..Len(text) |-> vocab[text[i]]]

tokenizer(text, truncation, padding, max_len) ==
    LET ids  == encode(text)
        cut  == IF truncation /\ Len(ids) > max_len
                THEN SubSeq(ids, 1, max_len) ELSE ids
        n    == IF padding = "max_length" /\ Len(cut) < max_len
                THEN max_len ELSE Len(cut)
        row  == [i \in 1..n |-> IF i <= Len(cut) THEN cut[i] ELSE PadTokenId]
        mask == [i \in 1..n |-> IF i <= Len(cut) THEN 1 ELSE 0]
    IN  [input_ids |-> <<row>>, attention_mask |-> <<mask>>]

(***************************************************************************)
(* Tensor helpers: val.squeeze(0) drops the first dimension when its size  *)
(* is one; labels[input_ids == pad] = v writes v at the selected           *)
(* positions of labels.                                                    *)
(***************************************************************************)
squeeze0(t) == IF Len(t) = 1 THEN t[1] ELSE t

masked_fill(labels, input_ids, pad, v) ==
    [b \in 1..Len(labels) |->
        [i \in 1..Len(labels[b]) |->
            IF input_ids[b][i] = pad THEN v ELSE labels[b][i]]]

(***************************************************************************)
(* CurriculumDataset.__getitem__(self, idx) as a function of the object    *)
(* and the corpus it refers to.                                            *)
(***************************************************************************)
\* padding='max_length' left out of the tokenizer call
getitem_nopad(self, rows, idx) ==
    LET item == dataset_getitem(rows, idx)
    IN  IF item.status # "ok" THEN item
        ELSE
          LET encoding == tokenizer(item.value.text, TRUE, "do_not_pad",
                                    self.seq_length)
              labels   == masked_fill(encoding.input_ids, encoding.input_ids,
                                      PadTokenId, IgnoreIndex)
          IN  Returned([input_ids      |-> squeeze0(encoding.input_ids),
                        attention_mask |-> squeeze0(encoding.attention_mask),
                        labels         |-> squeeze0(labels)])

\* the mask taken from attention_mask instead of the padding token id
getitem_maskattn(self, rows, idx) ==
    LET item == dataset_getitem(rows, idx)
    IN  IF item.status # "ok" THEN item
        ELSE
          LET encoding == tokenizer(item.value.text, TRUE, "max_length",
                                    self.seq_length)
              labels   == masked_fill(encoding.input_ids,
                                      encoding.attention_mask,
                                      0, IgnoreIndex)
          IN  Returned([input_ids      |-> squeeze0(encoding.input_ids),
                        attention_mask |-> squeeze0(encoding.attention_mask),
                        labels         |-> squeeze0(labels)])

\* labels bound to the input_ids tensor itself, .clone() left out: the
\* masked assignment then writes into input_ids as well
getitem_noclone(self, rows, idx) ==
    LET item == dataset_getitem(rows, idx)
    IN  IF item.status # "ok" THEN item
        ELSE
          LET encoding == tokenizer(item.value.text, TRUE, "max_length",
                                    self.seq_length)
              labels   == masked_fill(encoding.input_ids, encoding.input_ids,
                                      PadTokenId, IgnoreIndex)
          IN  Returned([input_ids      |-> squeeze0(labels),
                        attention_mask |-> squeeze0(encoding.attention_mask),
                        labels         |-> squeeze0(labels)])

getitem(self, rows, idx) ==
    LET item == dataset_getitem(rows, idx)
    IN  IF item.status # "ok" THEN item
        ELSE
          LET encoding == tokenizer(item.value.text, TRUE, "max_length",
                                    self.seq_length)
              labels   == masked_fill(encoding.input_ids, encoding.input_ids,
                                      PadTokenId, IgnoreIndex)
          IN  Returned([input_ids      |-> squeeze0(encoding.input_ids),
                        attention_mask |-> squeeze0(encoding.attention_mask),
                        labels         |-> squeeze0(labels)])

(***************************************************************************)
(* The state of the training-loop cell before it runs.                     *)
(***************************************************************************)
NoArgs == [num_train_epochs |-> 0]

NoTrainer ==
    [args |-> NoArgs, train_dataset |-> NoObject, eval_dataset |-> NoObject,
     train_made |-> 0 - 1, eval_made |-> 0 - 1, made |-> 0 - 1]

NoPrint == [epoch |-> 0, total |-> 0, seq_length |-> 0]

\* no get_sequence_length call followed yet
NoSince == [arg |-> 0, stage |-> "none"]

(***************************************************************************)
(* The names of the inference notebook and its benchmark labels, and the   *)
(* state of that notebook before it runs.                                  *)
(***************************************************************************)
ModelNames == {"model", "quantized_model", "distilled_model"}

Labels == {"Original", "Quantized", "Distilled", "Flash Attention"}

NoModel ==
    [cls |-> "none", attn |-> << >>, ln_1 |-> << >>, ln_2 |-> << >>,
     ln_f |-> "none", lm_head |-> "none", training |-> FALSE]

NoMeasure == [id |-> 0, state |-> NoModel]

At(stmt, phase) == [stmt |-> stmt, phase |-> phase]

BenchNotRun ==
    /\ bench_pc = At("idle", "")
    /\ binding = [name \in ModelNames |-> 0]
    /\ heap = << >>
    /\ measured = [label \in Labels |-> NoMeasure]
    /\ runs = 0

LoopNotRun ==
    /\ pc = "idle"
    /\ loop_epoch = 0 - 1
    /\ training_args = NoArgs
    /\ trainer = NoTrainer
    /\ made = [name \in Names |-> 0 - 1]
    /\ printed = NoPrint
    /\ trace = << >>

InitSchedule ==
    /\ LoopNotRun
    /\ BenchNotRun
    /\ since = NoSince
    /\ \E p \in ScheduleParams :
          /\ max_length = p.mx
          /\ min_length = p.mn
          /\ num_epochs = p.n
    /\ dataset = NoDataset
    /\ objects = [name \in Names |-> NoObject]
    /\ ret = NoCall
    /\ calls = {}
    /\ first = NoCall
    /\ interleaved = FALSE

(***************************************************************************)
(* A call get_sequence_length(epoch).  It reads the three globals and      *)
(* assigns nothing.                                                        *)
(***************************************************************************)
\* the schedule keeps what it last gave out as the new floor: min_length
\* is assigned the returned length
CallSchedule_ratchet(epoch) ==
    LET r == get_sequence_length(max_length, min_length, num_epochs, epoch)
        c == Outcome("get_sequence_length", "", epoch, r)
    IN  /\ ret' = c
        /\ calls' = calls \cup {c}
        /\ min_length' = (IF r.status = "ok" THEN r.value ELSE min_length)
        /\ UNCHANGED <<max_length, num_epochs, dataset, objects, history>>

CallSchedule(epoch) ==
    LET r == get_sequence_length(max_length, min_length, num_epochs, epoch)
        c == Outcome("get_sequence_length", "", epoch, r)
    IN  /\ ret' = c
        /\ calls' = calls \cup {c}
        /\ UNCHANGED <<globals, objects, history>>

NextSchedule ==
    \E epoch \in Epochs :
       CallSchedule(epoch) /\ UNCHANGED <<loop, since, bench>>

SpecSchedule == InitSchedule /\ [][NextSchedule]_vars

(***************************************************************************)
(* The dataset program: the globals hold valid schedule parameters and the *)
(* loaded corpus;                                                          *)
(* CurriculumDataset objects are constructed over the splits and then      *)
(* asked for their length and their items.  An object sees the schedule    *)
(* only through the seq_length it stores, so the globals take the one      *)
(* small schedule that starts at 1 and has the widest span.                *)
(***************************************************************************)
DatasetParams ==
    { p \in SmallParams :
        p.mn = 1 /\ p.mx = 1 + MaxSpan /\ p.n = MaxTotal }

\* the loaded DatasetDict: the validation split is as the train split
\* without its first record
LoadDataset(pool) ==
    [s \in Splits |->
        IF s = "train" \/ pool = << >> THEN pool ELSE Tail(pool)]

\* the indices asked of an object over rows: all the valid ones and one
\* past either end
Indices(rows) == (0 - (Len(rows) + 1))..Len(rows)

Bound(name) == objects[name] # NoObject

Init ==
    /\ LoopNotRun
    /\ BenchNotRun
    /\ since = NoSince
    /\ \E p \in DatasetParams :
          /\ max_length = p.mx
          /\ min_length = p.mn
          /\ num_epochs = p.n
    /\ \E pool \in Corpora : dataset = LoadDataset(pool)
    /\ objects = [name \in Names |-> NoObject]
    /\ ret = NoCall
    /\ calls = {}
    /\ first = NoCall
    /\ interleaved = FALSE

(***************************************************************************)
(* name = CurriculumDataset(dataset[split], tokenizer, epoch): __init__    *)
(* keeps the two references and the schedule's value for epoch, and the    *)
(* name is bound to the new object.  The object the name held before is    *)
(* gone, and what is remembered of its calls with it.                      *)
(***************************************************************************)
\* seq_length kept on the class instead of the instance: every object
\* alive takes the length of the one built last
Construct_classattr(name, epoch) ==
    LET r == get_sequence_length(max_length, min_length, num_epochs, epoch)
    IN  /\ IF r.status = "ok"
           THEN /\ objects' =
                     [o \in Names |->
                        IF o = name
                        THEN [dataset    |-> SplitOf(name),
                              tokenizer  |-> "tokenizer",
                              seq_length |-> r.value]
                        ELSE IF objects[o] = NoObject THEN NoObject
                        ELSE [objects[o] EXCEPT !.seq_length = r.value]]
                /\ ret' = Outcome("__init__", name, epoch, Returned(0))
                /\ IF first.self = name
                   THEN first' = NoCall /\ interleaved' = FALSE
                   ELSE /\ first' = first
                        /\ interleaved' = (interleaved \/ first.op # "none")
           ELSE /\ ret' = Outcome("__init__", name, epoch, r)
                /\ interleaved' = (interleaved \/ first.op # "none")
                /\ UNCHANGED <<objects, first>>
        /\ UNCHANGED <<globals, calls>>

Construct(name, epoch) ==
    LET r == get_sequence_length(max_length, min_length, num_epochs, epoch)
    IN  /\ IF r.status = "ok"
           THEN /\ objects' = [objects EXCEPT
                                 ![name] = [dataset    |-> SplitOf(name),
                                            tokenizer  |-> "tokenizer",
                                            seq_length |-> r.value]]
                /\ ret' = Outcome("__init__", name, epoch, Returned(0))
                /\ IF first.self = name
                   THEN first' = NoCall /\ interleaved' = FALSE
                   ELSE /\ first' = first
                        /\ interleaved' = (interleaved \/ first.op # "none")
           ELSE /\ ret' = Outcome("__init__", name, epoch, r)
                /\ interleaved' = (interleaved \/ first.op # "none")
                /\ UNCHANGED <<objects, first>>
        /\ UNCHANGED <<globals, calls>>

(***************************************************************************)
(* len(obj): CurriculumDataset.__len__.                                    *)
(***************************************************************************)
\* the length of an example returned for the number of examples
CallLen_seqlength(o) ==
    /\ Bound(o)
    /\ ret' = Outcome("__len__", o, 0, Returned(objects[o].seq_length))
    /\ interleaved' = (interleaved \/ first.op # "none")
    /\ UNCHANGED <<globals, objects, calls, first>>

CallLen(o) ==
    /\ Bound(o)
    /\ ret' = Outcome("__len__", o, 0,
                      Returned(Len(dataset[objects[o].dataset])))
    /\ interleaved' = (interleaved \/ first.op # "none")
    /\ UNCHANGED <<globals, objects, calls, first>>

(***************************************************************************)
(* obj[idx]: CurriculumDataset.__getitem__.                                *)
(***************************************************************************)
\* the object steps its own sequence length on every item it serves
CallGetItem_stepping(o, idx) ==
    LET r == getitem(objects[o], dataset[objects[o].dataset], idx)
        c == Outcome("__getitem__", o, idx, r)
    IN  /\ Bound(o)
        /\ ret' = c
        /\ first' = IF first.op = "none" THEN c ELSE first
        /\ interleaved' = (interleaved \/
                           (first.op # "none" /\
                            ~(o = first.self /\ idx = first.arg)))
        /\ objects' = [objects EXCEPT
                         ![o].seq_length = Min(max_length, @ + 1)]
        /\ UNCHANGED <<globals, calls>>

CallGetItem(o, idx) ==
    LET r == getitem(objects[o], dataset[objects[o].dataset], idx)
        c == Outcome("__getitem__", o, idx, r)
    IN  /\ Bound(o)
        /\ ret' = c
        /\ first' = IF first.op = "none" THEN c ELSE first
        /\ interleaved' = (interleaved \/
                           (first.op # "none" /\
                            ~(o = first.self /\ idx = first.arg)))
        /\ UNCHANGED <<globals, objects, calls>>

Next ==
    \/ \E name \in Names, epoch \in 0..num_epochs :
          Construct(name, epoch) /\ UNCHANGED <<loop, since, bench>>
    \/ \E o \in Names : CallLen(o) /\ UNCHANGED <<loop, since, bench>>
    \/ \E o \in Names :
          \E idx \in Indices(dataset[SplitOf(o)]) :
             CallGetItem(o, idx) /\ UNCHANGED <<loop, since, bench>>

Spec == Init /\ [][Next]_vars

(***************************************************************************)
(* The dataset program with calls of get_sequence_length among its         *)
(* operations.  since follows the first schedule call made: it is          *)
(* "called" after that call, "disturbed" once any other operation (a       *)
(* construction, a len, an item, a schedule call for another epoch) has    *)
(* completed after it, and "recalled" when the schedule is then called     *)
(* with the first call's epoch again.                                      *)
(***************************************************************************)
Disturb ==
    since' = IF since.stage = "called"
             THEN [since EXCEPT !.stage = "disturbed"]
             ELSE since

Recall(epoch) ==
    since' = IF since.stage = "none"
             THEN [arg |-> epoch, stage |-> "called"]
             ELSE IF since.arg # epoch
             THEN (IF since.stage = "called"
                   THEN [since EXCEPT !.stage = "disturbed"]
                   ELSE since)
             ELSE IF since.stage = "disturbed"
             THEN [since EXCEPT !.stage = "recalled"]
             ELSE since

NextPure ==
    \/ \E name \in Names, epoch \in 0..num_epochs :
          Construct(name, epoch) /\ Disturb /\ UNCHANGED <<loop, bench>>
    \/ \E o \in Names : CallLen(o) /\ Disturb /\ UNCHANGED <<loop, bench>>
    \/ \E o \in Names :
          \E idx \in Indices(dataset[SplitOf(o)]) :
             CallGetItem(o, idx) /\ Disturb /\ UNCHANGED <<loop, bench>>
    \/ \E epoch \in 0..num_epochs :
          CallSchedule(epoch) /\ Recall(epoch) /\ UNCHANGED <<loop, bench>>

\* the corpus of this program: one record of one word in the train split,
\* and with it an empty validation split
PureCorpora == { c \in Corpora : Len(c) = 1 /\ c[1].text = <<"the">> }

InitPure ==
    /\ LoopNotRun
    /\ BenchNotRun
    /\ since = NoSince
    /\ \E p \in DatasetParams :
          /\ max_length = p.mx
          /\ min_length = p.mn
          /\ num_epochs = p.n
    /\ \E pool \in PureCorpora : dataset = LoadDataset(pool)
    /\ objects = [name \in Names |-> NoObject]
    /\ ret = NoCall
    /\ calls = {}
    /\ first = NoCall
    /\ interleaved = FALSE

SpecPure == InitPure /\ [][NextPure]_vars

(***************************************************************************)
(* The training-loop cell.                                                 *)
(*   training_args = TrainingArguments(..., num_train_epochs=num_epochs)   *)
(*   for epoch in range(num_epochs):                                       *)
(*       train_dataset = CurriculumDataset(dataset['train'], ..., epoch)   *)
(*       eval_dataset = CurriculumDataset(dataset['validation'], ...)      *)
(*       trainer = Trainer(model, training_args, train_dataset, ...)       *)
(*       print(f"Epoch {epoch + 1}/{num_epochs}, Sequence Length: ...")    *)
(*       trainer.train()                                                   *)
(*       eval_results = trainer.evaluate()                                 *)
(*   print("Training completed")                                           *)
(* One action per statement.  train() and evaluate() are the library's and *)
(* are taken to return; what they are asked to do is kept in trace.        *)
(***************************************************************************)
LoopParams ==
    { p \in ScheduleParams : p.mn > 0 /\ p.mx >= p.mn /\ p.n >= 0 }

InitLoop ==
    /\ \E p \in LoopParams :
          /\ max_length = p.mx
          /\ min_length = p.mn
          /\ num_epochs = p.n
    /\ \E pool \in Corpora : dataset = LoadDataset(pool)
    /\ objects = [name \in Names |-> NoObject]
    /\ ret = NoCall
    /\ calls = {}
    /\ first = NoCall
    /\ interleaved = FALSE
    /\ pc = "training_args"
    /\ loop_epoch = 0 - 1
    /\ training_args = NoArgs
    /\ trainer = NoTrainer
    /\ made = [name \in Names |-> 0 - 1]
    /\ printed = NoPrint
    /\ trace = << >>
    /\ BenchNotRun
    /\ since = NoSince

\* one pass asked of every Trainer, the epochs left to the loop
TrainingArguments_single(n) == [num_train_epochs |-> 1]

TrainingArguments(n) == [num_train_epochs |-> n]

MakeTrainingArgs ==
    /\ pc = "training_args"
    /\ training_args' = TrainingArguments(num_epochs)
    /\ pc' = "for"
    /\ UNCHANGED <<globals, objects, ret, calls, history, loop_epoch,
                   trainer, made, printed, trace>>

(***************************************************************************)
(* for epoch in range(num_epochs): the next value is bound to epoch, or    *)
(* the loop is left when range(num_epochs) is used up.                     *)
(***************************************************************************)
\* range(1, num_epochs): the first epoch left out
ForNext_fromone ==
    /\ pc = "for"
    /\ IF (IF loop_epoch < 0 THEN 1 ELSE loop_epoch + 1) < num_epochs
       THEN /\ loop_epoch' = (IF loop_epoch < 0 THEN 1 ELSE loop_epoch + 1)
            /\ pc' = "train_dataset"
       ELSE /\ loop_epoch' = loop_epoch
            /\ pc' = "completed"
    /\ UNCHANGED <<globals, objects, ret, calls, history, training_args,
                   trainer, made, printed, trace>>

\* range(num_epochs + 1): one epoch more, the one that reaches max_length
ForNext_inclusive ==
    /\ pc = "for"
    /\ IF loop_epoch + 1 < num_epochs + 1
       THEN /\ loop_epoch' = loop_epoch + 1
            /\ pc' = "train_dataset"
       ELSE /\ loop_epoch' = loop_epoch
            /\ pc' = "completed"
    /\ UNCHANGED <<globals, objects, ret, calls, history, training_args,
                   trainer, made, printed, trace>>

ForNext ==
    /\ pc = "for"
    /\ IF loop_epoch + 1 < num_epochs
       THEN /\ loop_epoch' = loop_epoch + 1
            /\ pc' = "train_dataset"
       ELSE /\ loop_epoch' = loop_epoch
            /\ pc' = "completed"
    /\ UNCHANGED <<globals, objects, ret, calls, history, training_args,
                   trainer, made, printed, trace>>

\* the dataset built once and kept: an iteration builds it only when the
\* name is not bound yet
BuildTrainDataset_cached ==
    /\ pc = "train_dataset"
    /\ IF Bound("train_dataset")
       THEN UNCHANGED <<globals, objects, ret, calls, history, made>>
       ELSE /\ Construct("train_dataset", loop_epoch)
            /\ made' = [made EXCEPT !["train_dataset"] = loop_epoch]
    /\ pc' = "eval_dataset"
    /\ UNCHANGED <<loop_epoch, training_args, trainer, printed, trace>>

BuildTrainDataset ==
    /\ pc = "train_dataset"
    /\ Construct("train_dataset", loop_epoch)
    /\ made' = [made EXCEPT !["train_dataset"] = loop_epoch]
    /\ pc' = "eval_dataset"
    /\ UNCHANGED <<loop_epoch, training_args, trainer, printed, trace>>

BuildEvalDataset ==
    /\ pc = "eval_dataset"
    /\ Construct("eval_dataset", loop_epoch)
    /\ made' = [made EXCEPT !["eval_dataset"] = loop_epoch]
    /\ pc' = "trainer"
    /\ UNCHANGED <<loop_epoch, training_args, trainer, printed, trace>>

(***************************************************************************)
(* trainer = Trainer(model=model, args=training_args,                      *)
(*                   train_dataset=train_dataset,                          *)
(*                   eval_dataset=eval_dataset, ...): the new Trainer      *)
(* holds the objects the names are bound to at this moment.                *)
(***************************************************************************)
BuildTrainer ==
    /\ pc = "trainer"
    /\ trainer' = [args          |-> training_args,
                   train_dataset |-> objects["train_dataset"],
                   eval_dataset  |-> objects["eval_dataset"],
                   train_made    |-> made["train_dataset"],
                   eval_made     |-> made["eval_dataset"],
                   made          |-> loop_epoch]
    /\ pc' = "print"
    /\ UNCHANGED <<globals, objects, ret, calls, history, loop_epoch,
                   training_args, made, printed, trace>>

PrintEpoch ==
    /\ pc = "print"
    /\ CallSchedule(loop_epoch)
    /\ printed' = [epoch      |-> loop_epoch + 1,
                   total      |-> num_epochs,
                   seq_length |-> ret'.value]
    /\ pc' = "train"
    /\ UNCHANGED <<loop_epoch, training_args, trainer, made, trace>>

\* what a call on the trainer is asked to do: the iteration it is made in,
\* the Trainer it is made on and the datasets and arguments that one holds
Event(ev) ==
    [ev              |-> ev,
     epoch           |-> loop_epoch,
     trainer         |-> trainer.made,
     train_made      |-> trainer.train_made,
     eval_made       |-> trainer.eval_made,
     seq_length      |-> trainer.train_dataset.seq_length,
     eval_seq_length |-> trainer.eval_dataset.seq_length,
     passes          |-> trainer.args.num_train_epochs]

Train ==
    /\ pc = "train"
    /\ trace' = Append(trace, Event("train"))
    /\ pc' = "evaluate"
    /\ UNCHANGED <<globals, objects, ret, calls, history, loop_epoch,
                   training_args, trainer, made, printed>>

Evaluate ==
    /\ pc = "evaluate"
    /\ trace' = Append(trace, Event("evaluate"))
    /\ pc' = "for"
    /\ UNCHANGED <<globals, objects, ret, calls, history, loop_epoch,
                   training_args, trainer, made, printed>>

PrintCompleted ==
    /\ pc = "completed"
    /\ trace' = Append(trace, Event("completed"))
    /\ pc' = "done"
    /\ UNCHANGED <<globals, objects, ret, calls, history, loop_epoch,
                   training_args, trainer, made, printed>>

NextLoop ==
    \/ MakeTrainingArgs /\ UNCHANGED <<since, bench>>
    \/ ForNext /\ UNCHANGED <<since, bench>>
    \/ BuildTrainDataset /\ UNCHANGED <<since, bench>>
    \/ BuildEvalDataset /\ UNCHANGED <<since, bench>>
    \/ BuildTrainer /\ UNCHANGED <<since, bench>>
    \/ PrintEpoch /\ UNCHANGED <<since, bench>>
    \/ Train /\ UNCHANGED <<since, bench>>
    \/ Evaluate /\ UNCHANGED <<since, bench>>
    \/ PrintCompleted /\ UNCHANGED <<since, bench>>

SpecLoop == InitLoop /\ [][NextLoop]_vars

\* every statement of the cell returns, so the cell keeps running
SpecLoopFair == SpecLoop /\ WF_vars(NextLoop)

(***************************************************************************)
(* The inference notebook, statement by statement:                         *)
(*   model = AutoModelForCausalLM.from_pretrained("gpt2")                  *)
(*   quantized_model = torch.quantization.quantize_dynamic(model, ...)     *)
(*   distilled_model = AutoModelForCausalLM.from_pretrained("distilgpt2")  *)
(*   model = GPT2Model.from_pretrained("gpt2")                             *)
(*   replace_attention_layers(model, config)                               *)
(*   replace_layernorm_with_rmsnorm(model)                                 *)
(*   benchmark_inference(model, input_ids)             "Original"          *)
(*   benchmark_inference(quantized_model, input_ids)   "Quantized"         *)
(*   benchmark_inference(distilled_model, input_ids)   "Distilled"         *)
(*   benchmark_inference(model, input_ids)             "Flash Attention"   *)
(* A model object is the classes of its submodules: per block the          *)
(* attention and the two norms, the final norm and the head.  heap holds   *)
(* the objects, a name is bound to an index of heap.  The forward calls    *)
(* of a benchmark are the library's and are taken to return.               *)
(***************************************************************************)
Warmup  == 10       \* for _ in range(10)
NumRuns == 100      \* num_runs=100

Layers == 1..MaxLayers

from_pretrained(cls, n) ==
    [cls      |-> cls,
     attn     |-> [i \in 1..n |-> "GPT2Attention"],
     ln_1     |-> [i \in 1..n |-> "LayerNorm"],
     ln_2     |-> [i \in 1..n |-> "LayerNorm"],
     ln_f     |-> "LayerNorm",
     lm_head  |-> (IF cls = "GPT2LMHeadModel" THEN "Linear" ELSE "none"),
     training |-> FALSE]

\* a converted copy: of GPT-2's submodules only the head is a torch.nn.Linear
quantize_dynamic(m) ==
    [m EXCEPT !.lm_head = IF @ = "Linear" THEN "DynamicQuantizedLinear" ELSE @]

replace_attention_layers(m) ==
    [m EXCEPT !.attn = [i \in 1..Len(m.attn) |->
                          IF m.attn[i] = "GPT2Attention"
                          THEN "FlashAttention" ELSE m.attn[i]]]

RMS(c) == IF c = "LayerNorm" THEN "RMSNorm" ELSE c

replace_layernorm_with_rmsnorm(m) ==
    [m EXCEPT !.ln_1 = [i \in 1..Len(m.ln_1) |-> RMS(m.ln_1[i])],
              !.ln_2 = [i \in 1..Len(m.ln_2) |-> RMS(m.ln_2[i])],
              !.ln_f = RMS(m.ln_f)]

\* the name each benchmark label is measured on, and the label after it
Subject(label) ==
    IF label = "Quantized" THEN "quantized_model"
    ELSE IF label = "Distilled" THEN "distilled_model"
    ELSE "model"

After(label) ==
    IF label = "Original" THEN At("Quantized", "call")
    ELSE IF label = "Quantized" THEN At("Distilled", "call")
    ELSE IF label = "Distilled" THEN At("Flash Attention", "call")
    ELSE At("done", "")

others == <<globals, objects, ret, calls, history, loop, since>>

InitBench ==
    /\ max_length = 0
    /\ min_length = 0
    /\ num_epochs = 0
    /\ dataset = NoDataset
    /\ objects = [name \in Names |-> NoObject]
    /\ ret = NoCall
    /\ calls = {}
    /\ first = NoCall
    /\ interleaved = FALSE
    /\ LoopNotRun
    /\ since = NoSince
    /\ bench_pc = At("load", "")
    /\ binding = [name \in ModelNames |-> 0]
    /\ heap = << >>
    /\ measured = [label \in Labels |-> NoMeasure]
    /\ runs = 0

\* a new object on the heap, and the name bound to it
Bind(name, m) ==
    /\ heap' = Append(heap, m)
    /\ binding' = [binding EXCEPT ![name] = Len(heap) + 1]

LoadModel ==
    /\ bench_pc = At("load", "")
    /\ \E n \in Layers : Bind("model", from_pretrained("GPT2LMHeadModel", n))
    /\ bench_pc' = At("quantize", "")
    /\ UNCHANGED <<measured, runs, others>>

Quantize ==
    /\ bench_pc = At("quantize", "")
    /\ Bind("quantized_model", quantize_dynamic(heap[binding["model"]]))
    /\ bench_pc' = At("distil", "")
    /\ UNCHANGED <<measured, runs, others>>

LoadDistilled ==
    /\ bench_pc = At("distil", "")
    /\ \E n \in 1..Len(heap[binding["model"]].attn) :
          Bind("distilled_model", from_pretrained("GPT2LMHeadModel", n))
    /\ bench_pc' = At("reload", "")
    /\ UNCHANGED <<measured, runs, others>>

\* model = GPT2Model.from_pretrained("gpt2"): the name model is bound anew
ReloadModel ==
    /\ bench_pc = At("reload", "")
    /\ Bind("model",
            from_pretrained("GPT2Model", Len(heap[binding["model"]].attn)))
    /\ bench_pc' = At("replace_attention", "")
    /\ UNCHANGED <<measured, runs, others>>

ReplaceAttention ==
    /\ bench_pc = At("replace_attention", "")
    /\ heap' = [heap EXCEPT ![binding["model"]] = replace_attention_layers(@)]
    /\ bench_pc' = At("replace_layernorm", "")
    /\ UNCHANGED <<binding, measured, runs, others>>

ReplaceLayerNorm ==
    /\ bench_pc = At("replace_layernorm", "")
    /\ heap' = [heap EXCEPT
                  ![binding["model"]] = replace_layernorm_with_rmsnorm(@)]
    /\ bench_pc' = At("Original", "call")
    /\ UNCHANGED <<binding, measured, runs, others>>

(***************************************************************************)
(* benchmark_inference(model_or_func, input_ids): eval() on the object,    *)
(* ten warm-up calls, num_runs timed calls, the mean returned.  measured   *)
(* keeps which object the label is measured on, and in which state.        *)
(***************************************************************************)
BenchmarkCall(label) ==
    LET id == binding[Subject(label)]
    IN  /\ bench_pc = At(label, "call")
        /\ heap' = [heap EXCEPT ![id].training = FALSE]
        /\ measured' = [measured EXCEPT
                          ![label] = [id |-> id, state |-> heap'[id]]]
        /\ runs' = 0
        /\ bench_pc' = At(label, "warmup")
        /\ UNCHANGED <<binding, others>>

WarmupForward(label) ==
    /\ bench_pc = At(label, "warmup")
    /\ runs < Warmup
    /\ runs' = runs + 1
    /\ UNCHANGED <<bench_pc, binding, heap, measured, others>>

StartTimer(label) ==
    /\ bench_pc = At(label, "warmup")
    /\ runs = Warmup
    /\ runs' = 0
    /\ bench_pc' = At(label, "timed")
    /\ UNCHANGED <<binding, heap, measured, others>>

TimedForward(label) ==
    /\ bench_pc = At(label, "timed")
    /\ runs < NumRuns
    /\ runs' = runs + 1
    /\ UNCHANGED <<bench_pc, binding, heap, measured, others>>

BenchmarkReturn(label) ==
    /\ bench_pc = At(label, "timed")
    /\ runs = NumRuns
    /\ bench_pc' = After(label)
    /\ UNCHANGED <<binding, heap, measured, runs, others>>

NextBench ==
    \/ LoadModel
    \/ Quantize
    \/ LoadDistilled
    \/ ReloadModel
    \/ ReplaceAttention
    \/ ReplaceLayerNorm
    \/ \E label \in Labels : BenchmarkCall(label)
    \/ \E label \in Labels : WarmupForward(label)
    \/ \E label \in Labels : StartTimer(label)
    \/ \E label \in Labels : TimedForward(label)
    \/ \E label \in Labels : BenchmarkReturn(label)

SpecBench == InitBench /\ [][NextBench]_vars

(***************************************************************************)
(*                     Properties of the schedule                          *)
(*                     (checked under SpecSchedule)                        *)
(***************************************************************************)
IsSchedule(c) == c.op = "get_sequence_length"

InDomain(c) ==
    /\ IsSchedule(c)
    /\ ValidParams(max_length, min_length, num_epochs)
    /\ c.arg >= 0

\* C1: for epoch >= 0 and valid globals the call returns
\* min(max_length, min_length + floor((max_length - min_length) * epoch /
\* num_epochs)): below max_length the increment q over min_length is the
\* integer with q * num_epochs <= (max_length - min_length) * epoch <
\* (q + 1) * num_epochs, and max_length is returned exactly when that
\* integer is at least max_length - min_length.
ScheduleFormula ==
    InDomain(ret) =>
        LET d == max_length - min_length
            q == ret.value - min_length
        IN  /\ ret.status = "ok"
            /\ \/ /\ ret.value < max_length
                  /\ q * num_epochs <= d * ret.arg
                  /\ d * ret.arg < (q + 1) * num_epochs
               \/ /\ ret.value = max_length
                  /\ d * num_epochs <= d * ret.arg

\* a call whose quotient is not exact and lies below the clamp
ScheduleFormulaWitness ==
    /\ InDomain(ret)
    /\ ret.value < max_length
    /\ ret.value > min_length
    /\ (ret.value - min_length) * num_epochs
           < (max_length - min_length) * ret.arg

\* C2: the schedule is non-decreasing in epoch: of two completed calls with
\* epochs 0 <= a < b under valid globals, the first returned no more than
\* the second.
ScheduleMonotone ==
    \A a \in calls, b \in calls :
        (InDomain(a) /\ InDomain(b) /\ a.arg < b.arg) => a.value <= b.value

\* two calls at different epochs that returned different lengths
ScheduleMonotoneWitness ==
    \E a \in calls, b \in calls :
        InDomain(a) /\ InDomain(b) /\ a.arg < b.arg /\ a.value < b.value

\* C3: at epoch 0 the schedule returns min_length.
ScheduleStartsAtMin ==
    (InDomain(ret) /\ ret.arg = 0) => ret.value = min_length

\* a call at epoch 0 where the step to the next epoch is not zero
ScheduleStartsAtMinWitness ==
    /\ InDomain(ret)
    /\ ret.arg = 0
    /\ max_length - min_length >= num_epochs
    /\ ret.value = min_length

\* C4: the schedule never exceeds max_length, and from epoch num_epochs on
\* it returns max_length exactly.
ScheduleSaturates ==
    InDomain(ret) =>
        /\ ret.value <= max_length
        /\ ret.arg >= num_epochs => ret.value = max_length

\* a call past the last epoch, where the unclamped value exceeds max_length
ScheduleSaturatesWitness ==
    /\ InDomain(ret)
    /\ ret.arg > num_epochs
    /\ max_length > min_length
    /\ ret.value = max_length

IsNotebook ==
    /\ max_length = NbMaxLength
    /\ min_length = NbMinLength
    /\ num_epochs = NbNumEpochs

\* C5: with min_length = 1024, max_length = 4096, num_epochs = 3 the
\* schedule returns 1024, 2048, 3072 and 4096 at epochs 0, 1, 2 and 3.
NotebookSchedule ==
    IsNotebook =>
        \A c \in calls :
            /\ c.arg = 0 => (c.status = "ok" /\ c.value = 1024)
            /\ c.arg = 1 => (c.status = "ok" /\ c.value = 2048)
            /\ c.arg = 2 => (c.status = "ok" /\ c.value = 3072)
            /\ c.arg = 3 => (c.status = "ok" /\ c.value = 4096)

\* all four epochs have been asked for under the notebook's constants
NotebookScheduleWitness ==
    /\ IsNotebook
    /\ \A e \in 0..3 : \E c \in calls : c.arg = e /\ c.status = "ok"

\* C9: a call with num_epochs <= 0, max_length < min_length or a negative
\* epoch raises an error and returns no length.
InvalidParamsRaise ==
    (/\ IsSchedule(ret)
     /\ \/ num_epochs <= 0
        \/ max_length < min_length
        \/ ret.arg < 0)
    => ret.status # "ok"

(***************************************************************************)
(*                   Properties of CurriculumDataset                       *)
(*                        (checked under Spec)                             *)
(***************************************************************************)
IsGetItem(c) == c.op = "__getitem__"

Served(c) == IsGetItem(c) /\ c.status = "ok"

RowsOf(o) == dataset[objects[o].dataset]

\* the words of the record an index addresses, counted from either end
TextAt(o, idx) ==
    RowsOf(o)[(IF idx < 0 THEN idx + Len(RowsOf(o)) ELSE idx) + 1].text

\* C6: every example __getitem__ returns has input_ids and labels of
\* exactly seq_length positions, whatever the length of the record's text.
ExampleLength ==
    Served(ret) =>
        /\ Len(ret.value.input_ids) = objects[ret.self].seq_length
        /\ Len(ret.value.labels) = objects[ret.self].seq_length

\* the first item served was padded and the last one truncated
ExampleLengthWitness ==
    /\ Served(ret)
    /\ Len(TextAt(ret.self, ret.arg)) > objects[ret.self].seq_length
    /\ Served(first)
    /\ Len(TextAt(first.self, first.arg)) < objects[first.self].seq_length
    /\ Len(first.value.input_ids) = Len(ret.value.input_ids)

\* C7: in every example, a position holding the padding token id has label
\* -100 and every other position has the label equal to its token id.
LabelsMaskPadding ==
    Served(ret) =>
        \A i \in 1..Len(ret.value.input_ids) :
            IF ret.value.input_ids[i] = PadTokenId
            THEN ret.value.labels[i] = IgnoreIndex
            ELSE ret.value.labels[i] = ret.value.input_ids[i]

\* an example with a padding token inside the text and a real token after
LabelsMaskPaddingWitness ==
    /\ Served(ret)
    /\ Len(ret.value.input_ids) >= 2
    /\ ret.value.input_ids[1] = PadTokenId
    /\ ret.value.labels[1] = IgnoreIndex
    /\ ret.value.input_ids[2] # PadTokenId
    /\ ret.value.attention_mask[1] = 1

\* C8 as stated: __getitem__(index) raises for every index < 0 and every
\* index >= len(dataset) and succeeds for 0 <= index < len(dataset).
GetItemRangeStated ==
    IsGetItem(ret) =>
        (ret.status = "ok" <=>
            (0 <= ret.arg /\ ret.arg < Len(RowsOf(ret.self))))

\* C8 amended: __getitem__(index) raises IndexError for index <
\* -len(dataset) and for index >= len(dataset); it succeeds for
\* -len(dataset) <= index < len(dataset), a negative index serving the
\* record index + len(dataset).
GetItemRange ==
    IsGetItem(ret) =>
        LET n == Len(RowsOf(ret.self))
        IN  IF 0 - n <= ret.arg /\ ret.arg < n
            THEN /\ ret.status = "ok"
                 /\ ret.arg < 0 =>
                        ret.value = getitem(objects[ret.self],
                                            RowsOf(ret.self),
                                            ret.arg + n).value
            ELSE ret.status = "IndexError"

\* the last of two records served for index -1
GetItemRangeWitness ==
    /\ Served(ret)
    /\ ret.arg = 0 - 1
    /\ Len(RowsOf(ret.self)) = 2
    /\ RowsOf(ret.self)[1] # RowsOf(ret.self)[2]

\* C10: a __getitem__ call with the object and index of an earlier one
\* returns what the earlier one returned, whatever was called in between.
GetItemIdempotent ==
    (/\ IsGetItem(ret)
     /\ IsGetItem(first)
     /\ ret.self = first.self
     /\ ret.arg = first.arg)
    => /\ ret.status = first.status
       /\ ret.status = "ok" => ret.value = first.value

\* the index of the first item is asked again after other calls
GetItemIdempotentWitness ==
    /\ Served(ret)
    /\ Served(first)
    /\ ret.self = first.self
    /\ ret.arg = first.arg
    /\ interleaved

\* C11: __len__ returns the number of records of the split the object was
\* built over, whatever the epoch and so the seq_length it was built with.
LenIsCorpusLength ==
    (ret.op = "__len__") =>
        /\ ret.status = "ok"
        /\ ret.value = Len(dataset[SplitOf(ret.self)])

\* the length asked of an object whose seq_length differs from the number
\* of records, while the other object, of another seq_length, is alive
LenIsCorpusLengthWitness ==
    /\ ret.op = "__len__"
    /\ ret.self = "train_dataset"
    /\ ret.value = 2
    /\ objects["train_dataset"].seq_length # 2
    /\ Bound("eval_dataset")
    /\ objects["eval_dataset"].seq_length
           # objects["train_dataset"].seq_length

\* C15: no call changes the corpus; __len__ and __getitem__ leave every
\* object as it is; constructing an object binds its own name only, to the
\* split, the tokenizer and the schedule's length for its epoch, and
\* leaves the object of the other name as it is.  So an object keeps the
\* seq_length of its epoch after an object for a later epoch is built.
DatasetFrame ==
    [][ /\ dataset' = dataset
        /\ \A name \in Names :
              \/ objects'[name] = objects[name]
              \/ /\ ret'.op = "__init__"
                 /\ ret'.self = name
                 /\ ret'.status = "ok"
                 /\ objects'[name].dataset = SplitOf(name)
                 /\ objects'[name].tokenizer = "tokenizer"
                 /\ objects'[name].seq_length =
                        Min(max_length,
                            min_length +
                            ((max_length - min_length) * ret'.arg)
                                \div num_epochs) ]_vars

\* train_dataset serves an item of its own, shorter, length again while
\* eval_dataset is alive with the length of a later epoch
DatasetFrameWitness ==
    /\ Served(ret)
    /\ ret.self = "train_dataset"
    /\ Served(first)
    /\ first.self = "train_dataset"
    /\ interleaved
    /\ Bound("eval_dataset")
    /\ objects["eval_dataset"].seq_length
           > objects["train_dataset"].seq_length
    /\ Len(ret.value.input_ids) = objects["train_dataset"].seq_length
    /\ Len(first.value.input_ids) = objects["train_dataset"].seq_length

\* C16: input_ids is the tokenizer's output position for position: the
\* token id of the text's word where the text has one within seq_length,
\* the padding token id after it; -100 is nowhere in input_ids.
InputIdsUntouched ==
    Served(ret) =>
        LET text == TextAt(ret.self, ret.arg)
        IN  \A i \in 1..Len(ret.value.input_ids) :
               /\ ret.value.input_ids[i] # IgnoreIndex
               /\ ret.value.input_ids[i] =
                     (IF i <= Len(text) THEN vocab[text[i]] ELSE PadTokenId)

\* an example whose labels carry -100 at a padding position that
\* input_ids still holds as the padding token id
InputIdsUntouchedWitness ==
    /\ Served(ret)
    /\ \E i \in 1..Len(ret.value.input_ids) :
          /\ ret.value.labels[i] = IgnoreIndex
          /\ ret.value.input_ids[i] = PadTokenId
          /\ ret.value.attention_mask[i] = 0

\* C18: for epoch >= 0 and valid globals the schedule returns at least
\* min_length, so a positive length.
ScheduleAtLeastMin ==
    InDomain(ret) =>
        /\ ret.status = "ok"
        /\ ret.value >= min_length
        /\ ret.value > 0

\* a call that returns min_length itself although the epoch is not 0
ScheduleAtLeastMinWitness ==
    /\ InDomain(ret)
    /\ ret.arg > 0
    /\ max_length > min_length
    /\ ret.value = min_length

(***************************************************************************)
(*                     Properties of the training loop                     *)
(***************************************************************************)
\* the length the schedule assigns to an epoch of the loop, written out
StageLength(e) ==
    Min(max_length, min_length + ((max_length - min_length) * e) \div num_epochs)

Calls(ev) == { i \in 1..Len(trace) : trace[i].ev = ev }

OnTrainer == Calls("train") \cup Calls("evaluate")

(***************************************************************************)
(* C13: in every iteration of the loop, the training and the evaluation    *)
(* dataset held by that iteration's Trainer were both constructed in that  *)
(* very iteration, both with the sequence length get_sequence_length gives *)
(* for the iteration's epoch, which is also the length the iteration       *)
(* prints; no call of train() or evaluate() works on a dataset built in    *)
(* an earlier iteration.                                                   *)
(***************************************************************************)
LoopDatasetsFresh ==
    /\ pc \in {"print", "train", "evaluate"} =>
          /\ trainer.made = loop_epoch
          /\ trainer.train_made = loop_epoch
          /\ trainer.eval_made = loop_epoch
          /\ trainer.train_dataset.dataset = "train"
          /\ trainer.eval_dataset.dataset = "validation"
          /\ trainer.train_dataset.seq_length = StageLength(loop_epoch)
          /\ trainer.eval_dataset.seq_length = StageLength(loop_epoch)
    /\ pc \in {"train", "evaluate"} =>
          /\ printed.epoch = loop_epoch + 1
          /\ printed.total = num_epochs
          /\ printed.seq_length = trainer.train_dataset.seq_length
    /\ \A i \in OnTrainer :
          /\ trace[i].epoch \in 0..(num_epochs - 1)
          /\ trace[i].train_made = trace[i].epoch
          /\ trace[i].eval_made = trace[i].epoch
          /\ trace[i].seq_length = StageLength(trace[i].epoch)
          /\ trace[i].eval_seq_length = StageLength(trace[i].epoch)

LoopDatasetsFreshWitness ==
    /\ pc = "done"
    /\ \E i, j \in Calls("train") :
          /\ trace[i].epoch < trace[j].epoch
          /\ trace[i].seq_length < trace[j].seq_length
          /\ trace[j].train_made = trace[j].epoch

(***************************************************************************)
(* C14: the loop takes the epochs 0, 1, ..., num_epochs - 1 in this order; *)
(* in each of them train() is called once and then evaluate() once;        *)
(* 'Training completed' is reported after exactly num_epochs iterations    *)
(* and not before; and, every call returning, the cell gets there.         *)
(***************************************************************************)
LoopInOrder ==
    /\ Len(trace) <= 2 * num_epochs + 1
    /\ \A i \in 1..Len(trace) :
          IF i <= 2 * num_epochs
          THEN /\ trace[i].epoch = (i - 1) \div 2
               /\ trace[i].ev = (IF i % 2 = 1 THEN "train" ELSE "evaluate")
          ELSE trace[i].ev = "completed"
    /\ pc = "done" => Len(trace) = 2 * num_epochs + 1
    /\ pc = "evaluate" => /\ trace # << >>
                          /\ trace[Len(trace)].ev = "train"
                          /\ trace[Len(trace)].epoch = loop_epoch

LoopRunsToCompletion == ([]LoopInOrder) /\ <>(pc = "done")

LoopRunsToCompletionWitness ==
    /\ pc = "done"
    /\ num_epochs = NbNumEpochs
    /\ Len(trace) = 2 * NbNumEpochs + 1
    /\ trace[Len(trace)].ev = "completed"

(***************************************************************************)
(* C19: the loop never trains at max_length: when max_length > min_length, *)
(* every dataset the loop builds has a sequence length below max_length.   *)
(* With the notebook's constants the longest one is 3072.                  *)
(***************************************************************************)
LoopBelowMax ==
    max_length > min_length =>
       /\ \A name \in Names :
             Bound(name) => objects[name].seq_length < max_length
       /\ \A i \in OnTrainer :
             /\ trace[i].seq_length < max_length
             /\ trace[i].eval_seq_length < max_length
       /\ IsNotebook =>
             \A i \in OnTrainer : trace[i].seq_length <= 3072

LoopBelowMaxWitness ==
    /\ pc = "done"
    /\ IsNotebook
    /\ \E i \in Calls("train") :
          trace[i].epoch = num_epochs - 1 /\ trace[i].seq_length = 3072

(***************************************************************************)
(* C20: every iteration calls train() once, on a Trainer made in that      *)
(* iteration from the one training_args, whose num_train_epochs is         *)
(* num_epochs; so the passes asked for add up to num_epochs * num_epochs   *)
(* when the loop is over (9 with the notebook's constants).                *)
(***************************************************************************)
RECURSIVE Passes(_)
Passes(t) ==
    IF t = << >> THEN 0
    ELSE (IF t[1].ev = "train" THEN t[1].passes ELSE 0) + Passes(Tail(t))

LoopPasses ==
    /\ \A i \in Calls("train") :
          /\ trace[i].passes = num_epochs
          /\ trace[i].trainer = trace[i].epoch
    /\ \A i, j \in Calls("train") : i # j => trace[i].trainer # trace[j].trainer
    /\ pc = "done" =>
          /\ Cardinality(Calls("train")) = num_epochs
          /\ Passes(trace) = num_epochs * num_epochs
          /\ IsNotebook => Passes(trace) = 9

LoopPassesWitness ==
    /\ pc = "done"
    /\ IsNotebook
    /\ Passes(trace) = 9
    /\ Cardinality(Calls("train")) = 3

(***************************************************************************)
(* C12: get_sequence_length is a pure function of its epoch and the three  *)
(* globals: any two calls with the same epoch give the same outcome,       *)
(* whatever constructions, len and item calls and other schedule calls     *)
(* completed between them, and a call leaves the globals, the corpus, the  *)
(* objects and everything else of the program as they were.                *)
(***************************************************************************)
ScheduleDeterministic ==
    \A c1, c2 \in calls :
       c1.arg = c2.arg => c1.status = c2.status /\ c1.value = c2.value

ScheduleFrame ==
    ret'.op = "get_sequence_length" =>
       UNCHANGED <<globals, objects, history, loop, bench>>

SchedulePure == ([]ScheduleDeterministic) /\ [][ScheduleFrame]_vars

SchedulePureWitness ==
    /\ since.stage = "recalled"
    /\ ret.op = "get_sequence_length"
    /\ ret.arg = since.arg
    /\ first.op = "__getitem__"
    /\ \E name \in Names : Bound(name)
    /\ Cardinality(calls) >= 2

(***************************************************************************)
(*                  Properties of the inference benchmark                  *)
(***************************************************************************)
Unmodified(m) ==
    /\ \A i \in 1..Len(m.attn) : m.attn[i] = "GPT2Attention"
    /\ \A i \in 1..Len(m.ln_1) : m.ln_1[i] = "LayerNorm"
    /\ \A i \in 1..Len(m.ln_2) : m.ln_2[i] = "LayerNorm"
    /\ m.ln_f = "LayerNorm"

(***************************************************************************)
(* C17: the benchmark compares the original model with the optimized       *)
(* ones: what is measured under "Original" is the model loaded first,      *)
(* with no attention layer and no LayerNorm replaced, and what is measured *)
(* under "Flash Attention" is a model in another state.                    *)
(***************************************************************************)
OriginalMeasuredUnmodified ==
    /\ measured["Original"] # NoMeasure =>
          /\ measured["Original"].id = 1
          /\ Unmodified(measured["Original"].state)
    /\ (measured["Original"] # NoMeasure /\
        measured["Flash Attention"] # NoMeasure) =>
          measured["Flash Attention"].state # measured["Original"].state

====
